---- MODULE Spec2Model ----
(***************************************************************************)
(* A model of Repomap's generateRepomap.ts: the OpenRouter model client    *)
(* (retry with backoff), the response decoder of parseXmlToUnstructuredMap,*)
(* the font-size policy, the diagram mutator applyFontSizeScaling, the    *)
(* schema of the change proposal, the run of generateRepomap, and one      *)
(* makeRequest followed await by await.                                    *)
(*                                                                         *)
(* Texts are sequences of symbols.  A symbol is one character, except that *)
(* a word the code treats as a unit (a key such as files, a code fence,    *)
(* the header words) is one symbol.                                        *)
(***************************************************************************)
EXTENDS Integers, Sequences, FiniteSets, TLC

VARIABLES
    \* calculateFontSize: the call being made and the one before it
    lines, fontSize, prevLines, prevFont, fpc,
    \* OpenRouterChatModel: configuration, the call in progress, what happened
    config, maxRetries, messages, attempt, cpc, trace, result, error,
    \* applyFontSizeScaling: the diagram given, the line counts, the text after
    \* applied applications
    diagram, lineCountMap, current, applied,
    \* the response decoders: which one runs (target), the reply it is given
    \* (sample: the value written, how it is wrapped and corrupted; raw: the
    \* content), and what it made of it
    target, sample, raw, decoded, strategy, generation, dpc,
    \* generateRepomap: the command line (noRepomix, featureRequest), the files
    \* of the output directory (exists, xmlCounts, saved; written: those this
    \* run saved), the position of the run, its locals and its exit code
    noRepomix, featureRequest, exists, xmlCounts, saved, written, rpc,
    structureData, runDiagram, exitCode,
    \* the requests made with a direct fetch, outside OpenRouterChatModel
    fetches,
    \* changesSchema: the value it is given and what it says of it
    candidate, verdict,
    \* one makeRequest step by step: its position (qpc), its attempt
    \* parameter, the requests sent so far (issued) and those not yet settled
    \* (inFlight), the abort timers set and not cleared (timers), the time
    \* since the request was sent (elapsed), the response received, the
    \* failed attempts and requests of this call, the calls made so far and
    \* what _generate made of the result
    qpc, qAttempt, issued, inFlight, timers, elapsed, response, failures, sent, lastError,
    callsMade, output,
    \* parseLineCountsFromRepomix: the file blocks the analysis was written
    \* from, its text, and the map returned
    xmlBlocks, xmlText, countMap, counted

fontVars == <<lines, fontSize, prevLines, prevFont, fpc>>
clientVars == <<config, maxRetries, messages, attempt, cpc, trace, result, error>>
annotVars == <<diagram, lineCountMap, current, applied>>
decodeVars == <<target, sample, raw, decoded, strategy, generation, dpc>>
runVars ==
    <<noRepomix, featureRequest, exists, xmlCounts, saved, written, rpc, structureData,
      runDiagram, exitCode, fetches>>
schemaVars == <<candidate, verdict>>
requestVars ==
    <<qpc, qAttempt, issued, inFlight, timers, elapsed, response, failures, sent, lastError,
      callsMade, output>>
countVars == <<xmlBlocks, xmlText, countMap, counted>>
vars ==
    <<fontVars, clientVars, annotVars, decodeVars, runVars, schemaVars, requestVars, countVars>>

(***************************************************************************)
(* Bounds of the model.                                                    *)
(***************************************************************************)
MaxLineCount == 520
MaxStep == 2
MaxRetriesCfg == 4
MaxPayload == 2
MaxDiagramLines == 2
MaxApplications == 2
MaxGarbageLen == 3
\* the time the model follows a request for, in ticks
MaxTicks == 3
\* the calls of makeRequest one after another
MaxCalls == 2
\* the file blocks of an analysis
MaxBlocks == 2

(***************************************************************************)
(* Font Size Configuration (generateRepomap.ts 270-273).                   *)
(***************************************************************************)
MIN_LINES == 100
MAX_LINES == 500
MIN_FONT == 10
MAX_FONT == 20

(***************************************************************************)
(* JavaScript numbers that the font-size policy produces, as exact         *)
(* fractions in lowest terms (den > 0).                                    *)
(***************************************************************************)
RECURSIVE Gcd(_, _)
Gcd(a, b) == IF b = 0 THEN a ELSE Gcd(b, a % b)

Abs(n) == IF n < 0 THEN -n ELSE n

Frac(n, d) ==
    LET g == Gcd(Abs(n), Abs(d))
        s == IF d < 0 THEN -1 ELSE 1
    IN [num |-> (s * n) \div g, den |-> (s * d) \div g]

FracInt(n) == [num |-> n, den |-> 1]

FracAdd(x, y) == Frac(x.num * y.den + y.num * x.den, x.den * y.den)

FracMul(x, y) == Frac(x.num * y.num, x.den * y.den)

FracLeq(x, y) == x.num * y.den <= y.num * x.den

\* a mutant of calculateFontSize: the ratio computed by integer division
calculateFontSizeIntDiv(n) ==
    IF n <= MIN_LINES THEN FracInt(MIN_FONT)
    ELSE IF n >= MAX_LINES THEN FracInt(MAX_FONT)
    ELSE FracInt(MIN_FONT + ((n - MIN_LINES) \div (MAX_LINES - MIN_LINES)) * (MAX_FONT - MIN_FONT))

calculateFontSize(n) ==
    IF n <= MIN_LINES THEN FracInt(MIN_FONT)
    ELSE IF n >= MAX_LINES THEN FracInt(MAX_FONT)
    ELSE LET ratio == Frac(n - MIN_LINES, MAX_LINES - MIN_LINES)
         IN FracAdd(FracInt(MIN_FONT), FracMul(ratio, FracInt(MAX_FONT - MIN_FONT)))

(***************************************************************************)
(* The font-size policy as a state machine: calculateFontSize is called    *)
(* for one line count after another; the state keeps the last two calls.   *)
(***************************************************************************)
LineCounts == 0..MaxLineCount

NoFont == [num |-> 0, den |-> 1]

FontIdle ==
    /\ lines = 0
    /\ fontSize = NoFont
    /\ prevLines = 0
    /\ prevFont = NoFont
    /\ fpc = "none"

CalcFont ==
    /\ \E n \in LineCounts :
        /\ fpc = "none" \/ (n - lines <= MaxStep /\ lines - n <= MaxStep)
        /\ lines' = n
        /\ fontSize' = calculateFontSize(n)
    /\ prevLines' = lines
    /\ prevFont' = fontSize
    /\ fpc' = IF fpc = "none" THEN "one" ELSE "two"

(***************************************************************************)
(* OpenRouterChatModel (generateRepomap.ts 103-238).                       *)
(***************************************************************************)
DEFAULT_MAX_RETRIES == 3

Conversations == {"convA", "convB"}

\* what one fetch of makeRequest can end in, other than a usable envelope
FailureKinds == {"network", "timeout", "status", "body", "noChoices", "emptyChoices", "noMessage"}

NoError == [kind |-> "none", call |-> 0]

Event(e, conv, att, outcome, ms, payload) ==
    [e |-> e, conv |-> conv, attempt |-> att, outcome |-> outcome, ms |-> ms, payload |-> payload]

\* constructor: maxRetries = config.maxRetries || 3
Constructor(cfgMaxRetries) == IF cfgMaxRetries = 0 THEN DEFAULT_MAX_RETRIES ELSE cfgMaxRetries

ClientInit ==
    /\ config \in 0..MaxRetriesCfg
    /\ maxRetries = Constructor(config)
    /\ messages \in Conversations
    /\ attempt = 0
    /\ cpc = "idle"
    /\ trace = <<>>
    /\ result = 0
    /\ error = NoError

ClientIdle ==
    /\ config = 0
    /\ maxRetries = DEFAULT_MAX_RETRIES
    /\ messages = "convA"
    /\ attempt = 0
    /\ cpc = "idle"
    /\ trace = <<>>
    /\ result = 0
    /\ error = NoError

\* _generate calls makeRequest(messages), attempt defaulting to 1
Generate ==
    /\ cpc = "idle"
    /\ cpc' = "fetch"
    /\ attempt' = 1
    /\ UNCHANGED <<config, maxRetries, messages, trace, result, error>>

\* the wait of the catch block: attempt * 2000 ms
BackoffMs(att) == att * 2000

\* a mutant of FetchFails: the error of the first attempt is the one kept
FetchFailsKeepFirst ==
    /\ cpc = "fetch"
    /\ \E kind \in FailureKinds :
        /\ trace' = Append(trace, Event("call", messages, attempt, kind, 0, 0))
        /\ error' = IF attempt = 1 THEN [kind |-> kind, call |-> attempt] ELSE error
    /\ cpc' = IF attempt < maxRetries THEN "backoff" ELSE "thrown"
    /\ UNCHANGED <<config, maxRetries, messages, attempt, result>>

\* the try block throws: fetch rejects or is aborted, the status is not ok,
\* the body is not JSON, or the envelope has no choices[0].message
FetchFails ==
    /\ cpc = "fetch"
    /\ \E kind \in FailureKinds :
        /\ trace' = Append(trace, Event("call", messages, attempt, kind, 0, 0))
        /\ error' = [kind |-> kind, call |-> attempt]
    /\ cpc' = IF attempt < maxRetries THEN "backoff" ELSE "thrown"
    /\ UNCHANGED <<config, maxRetries, messages, attempt, result>>

\* the try block returns result
FetchSucceeds ==
    /\ cpc = "fetch"
    /\ \E p \in 1..MaxPayload :
        /\ trace' = Append(trace, Event("call", messages, attempt, "ok", 0, p))
        /\ result' = p
    /\ cpc' = "returned"
    /\ UNCHANGED <<config, maxRetries, messages, attempt, error>>

\* a mutant of BackoffElapsed: a constant two-second wait
BackoffElapsedConstant ==
    /\ cpc = "backoff"
    /\ trace' = Append(trace, Event("wait", messages, attempt, "wait", 2000, 0))
    /\ attempt' = attempt + 1
    /\ cpc' = "fetch"
    /\ UNCHANGED <<config, maxRetries, messages, result, error>>

\* the timer of the catch block fires: makeRequest(messages, attempt + 1)
BackoffElapsed ==
    /\ cpc = "backoff"
    /\ trace' = Append(trace, Event("wait", messages, attempt, "wait", BackoffMs(attempt), 0))
    /\ attempt' = attempt + 1
    /\ cpc' = "fetch"
    /\ UNCHANGED <<config, maxRetries, messages, result, error>>

(***************************************************************************)
(* Texts.                                                                  *)
(***************************************************************************)
NL == "\n"

QUOTE == "\""

\* \s
WhiteSyms == {" ", NL}

DigitSyms == <<"0", "1", "2", "3", "4", "5", "6", "7", "8", "9">>

\* symbols made of [a-zA-Z0-9_] only
WordSyms ==
    {"home", "header", "misc", "style", "flowchart", "TB", "json", "n",
     "files", "path", "imports", "exports", "relationships", "type", "target",
     "directories", "newNodes", "newEdges", "explanation", "id", "label", "role",
     "from", "to", "relationship", "proposed", "diagram", "true", "false", "null",
     "page", "component", "service", "config", "other", "a", "b", "src", "uses"}
    \cup {DigitSyms[i] : i \in 1..10}

\* String.prototype.split("\n"): the lines from position from on
RECURSIVE SplitFrom(_, _)
SplitFrom(text, from) ==
    LET nls == { i \in from..Len(text) : text[i] = NL }
    IN IF nls = {} THEN <<SubSeq(text, from, Len(text))>>
       ELSE LET m == CHOOSE i \in nls : \A j \in nls : i <= j
            IN <<SubSeq(text, from, m - 1)>> \o SplitFrom(text, m + 1)

Split(text) == SplitFrom(text, 1)

\* Array.prototype.join("\n")
RECURSIVE Join(_)
Join(ls) ==
    IF ls = <<>> THEN <<>>
    ELSE IF Len(ls) = 1 THEN ls[1]
    ELSE ls[1] \o <<NL>> \o Join(Tail(ls))

RECURSIVE Digits(_)
Digits(n) == IF n < 10 THEN <<DigitSyms[n + 1]>> ELSE Digits(n \div 10) \o <<DigitSyms[(n % 10) + 1]>>

\* the decimals of t thousandths, 0 < t < 1000, without trailing zeros
Decimals(t) ==
    IF t % 100 = 0 THEN Digits(t \div 100)
    ELSE IF t % 10 = 0 THEN Digits(t \div 100) \o Digits((t \div 10) % 10)
    ELSE Digits(t \div 100) \o Digits((t \div 10) % 10) \o Digits(t % 10)

\* the template literal of line 939: Number to String, for the sizes calculateFontSize returns
FormatNumber(x) ==
    LET whole == x.num \div x.den
        rem == x.num % x.den
    IN IF rem = 0 THEN Digits(whole)
       ELSE Digits(whole) \o <<".">> \o Decimals((rem * 1000) \div x.den)

(***************************************************************************)
(* applyFontSizeScaling (generateRepomap.ts 923-944).                      *)
(***************************************************************************)
At(line, i) == IF i >= 1 /\ i <= Len(line) THEN line[i] ELSE "<end>"

\* the length of the longest run of symbols of class cls starting at i
RECURSIVE RunLen(_, _, _)
RunLen(line, i, cls) ==
    IF At(line, i) \in cls THEN 1 + RunLen(line, i + 1, cls) ELSE 0

NoMatch == [matched |-> FALSE, id |-> <<>>, label |-> <<>>]

\* the part of nodeRegex after "(", from position p: the ways to match, as
\* <<b1, q1, n, q2, b2>> (1: the optional symbol is consumed, n: the length
\* of the label)
TailMatches(line, p) ==
    { m \in {0, 1} \X {0, 1} \X (1..Len(line)) \X {0, 1} \X {0, 1} :
        LET p1 == p + m[1]
            p2 == p1 + m[2]
            p3 == p2 + m[3]
            p4 == p3 + m[4]
            p5 == p4 + m[5]
        IN /\ (m[1] = 1 => At(line, p) = "[")
           /\ (m[2] = 1 => At(line, p1) = QUOTE)
           /\ p3 - 1 <= Len(line)
           /\ \A i \in p2..(p3 - 1) : line[i] # QUOTE
           /\ (m[4] = 1 => At(line, p3) = QUOTE)
           /\ (m[5] = 1 => At(line, p4) = "]")
           /\ At(line, p5) = ")" }

\* a backtracking matcher tries a greedy quantifier's longest option first
Prefers(m1, m2) ==
    \E k \in 1..5 : m1[k] > m2[k] /\ \A j \in 1..(k - 1) : m1[j] = m2[j]

\* a mutant of NodeRegex: the label never takes in a closing square bracket
NodeRegexLabelStopsAtBracket(line) ==
    LET ws == RunLen(line, 1, WhiteSyms)
        idLen == RunLen(line, ws + 1, WordSyms)
        p == ws + idLen + 2
        ms == { m \in TailMatches(line, p) :
                  \A i \in (p + m[1] + m[2])..(p + m[1] + m[2] + m[3] - 1) : line[i] # "]" }
    IN IF idLen = 0 \/ At(line, ws + idLen + 1) # "(" \/ ms = {} THEN NoMatch
       ELSE LET m == CHOOSE x \in ms : \A y \in ms \ {x} : Prefers(x, y)
                s == p + m[1] + m[2]
            IN [matched |-> TRUE,
                id |-> SubSeq(line, ws + 1, ws + idLen),
                label |-> SubSeq(line, s, s + m[3] - 1)]

\* nodeRegex.exec(line), line 928: whitespace, an identifier, "(", then an
\* optional "[", an optional quote, the label (one or more symbols other than
\* a quote), an optional quote, an optional "]", and ")".
\* id is match[2], label is match[4]
NodeRegex(line) ==
    LET ws == RunLen(line, 1, WhiteSyms)
        idLen == RunLen(line, ws + 1, WordSyms)
        p == ws + idLen + 2
        ms == TailMatches(line, p)
    IN IF idLen = 0 \/ At(line, ws + idLen + 1) # "(" \/ ms = {} THEN NoMatch
       ELSE LET m == CHOOSE x \in ms : \A y \in ms \ {x} : Prefers(x, y)
                s == p + m[1] + m[2]
            IN [matched |-> TRUE,
                id |-> SubSeq(line, ws + 1, ws + idLen),
                label |-> SubSeq(line, s, s + m[3] - 1)]

\* line 939: style, the node id, font-size: and the size in px
StyleLine(nodeId, size) ==
    <<"style", " ">> \o nodeId \o <<" ", "font-size:">> \o FormatNumber(size) \o <<"px;">>

\* a mutant of ScaledLines: a line that starts with the word style is taken
\* for the declaration of a node named style
ScaledLinesStyleAsNode(line, map) ==
    LET match == NodeRegex(line)
    IN IF match.matched /\ match.label \in DOMAIN map
       THEN <<line, StyleLine(match.id, calculateFontSize(map[match.label]))>>
       ELSE IF line # <<>> /\ Head(line) = "style"
       THEN <<line, StyleLine(<<"style">>, calculateFontSize(MIN_LINES))>>
       ELSE <<line>>

\* a mutant of ScaledLines: the style line takes the place of the node line
ScaledLinesInPlace(line, map) ==
    LET match == NodeRegex(line)
    IN IF match.matched /\ match.label \in DOMAIN map
       THEN <<StyleLine(match.id, calculateFontSize(map[match.label]))>>
       ELSE <<line>>

\* the body of the loop over lines: the lines pushed for one line
ScaledLines(line, map) ==
    LET match == NodeRegex(line)
    IN IF match.matched /\ match.label \in DOMAIN map
       THEN <<line, StyleLine(match.id, calculateFontSize(map[match.label]))>>
       ELSE <<line>>

RECURSIVE ScaleAll(_, _)
ScaleAll(ls, map) ==
    IF ls = <<>> THEN <<>> ELSE ScaledLines(Head(ls), map) \o ScaleAll(Tail(ls), map)

applyFontSizeScaling(text, map) == Join(ScaleAll(Split(text), map))

(***************************************************************************)
(* JSON values: strings, arrays, objects, numbers and the literals true,   *)
(* false and null, each tagged with its type.  An object is a function     *)
(* from keys to values (two objects with the same members are equal, in    *)
(* whatever order their keys were written); undefined is what reading a    *)
(* missing property gives.                                                 *)
(***************************************************************************)
JStr(s) == [t |-> "str", v |-> s]

JArr(xs) == [t |-> "arr", v |-> xs]

JObj(f) == [t |-> "obj", v |-> f]

JNum(ds) == [t |-> "num", v |-> ds]

JLit(name) == [t |-> "lit", v |-> <<name>>]

JNull == JLit("null")

Undefined == [t |-> "undef", v |-> <<>>]

BACKSLASH == "\\"

Drop(text, n) == SubSeq(text, n + 1, Len(text))

\* the order in which JSON.stringify writes the keys of the objects of this model
KeyOrder ==
    <<"files", "path", "imports", "exports", "relationships", "type", "target",
      "directories", "newNodes", "id", "label", "role", "newEdges", "from", "to",
      "relationship", "proposed", "explanation", "diagram">>

\* JSON.stringify of a string: quotes, backslashes and newlines are escaped,
\* symbol by symbol
RECURSIVE Escape(_)
Escape(str) ==
    IF str = <<>> THEN <<>>
    ELSE IF Len(str) = 1
    THEN (IF str[1] \in {QUOTE, BACKSLASH} THEN <<BACKSLASH, str[1]>>
          ELSE IF str[1] = NL THEN <<BACKSLASH, "n">>
          ELSE str)
    ELSE Escape(SubSeq(str, 1, Len(str) \div 2)) \o Escape(SubSeq(str, Len(str) \div 2 + 1, Len(str)))

\* the keys of object f, in the order in which they are written
KeysOf(f) == SelectSeq(KeyOrder, LAMBDA key : <<key>> \in DOMAIN f)

\* JSON.stringify(value); bare: keys are written without quotes, trailing: a
\* comma follows the last element of a non-empty array or object (neither is
\* what JSON.stringify does: they are the corruptions a model reply may show)
RECURSIVE Stringify(_, _, _), StringifyElems(_, _, _), StringifyMembers(_, _, _, _)
Stringify(val, bare, trailing) ==
    IF val.t = "str" THEN <<QUOTE>> \o Escape(val.v) \o <<QUOTE>>
    ELSE IF val.t = "arr" THEN <<"[">> \o StringifyElems(val.v, bare, trailing) \o <<"]">>
    ELSE IF val.t = "obj" THEN <<"{">> \o StringifyMembers(val.v, KeysOf(val.v), bare, trailing) \o <<"}">>
    ELSE val.v

StringifyElems(xs, bare, trailing) ==
    IF xs = <<>> THEN <<>>
    ELSE Stringify(Head(xs), bare, trailing)
         \o (IF Len(xs) > 1 \/ trailing THEN <<",">> ELSE <<>>)
         \o StringifyElems(Tail(xs), bare, trailing)

StringifyMembers(f, keys, bare, trailing) ==
    IF keys = <<>> THEN <<>>
    ELSE (IF bare THEN <<Head(keys)>> ELSE <<QUOTE, Head(keys), QUOTE>>)
         \o <<":">> \o Stringify(f[<<Head(keys)>>], bare, trailing)
         \o (IF Len(keys) > 1 \/ trailing THEN <<",">> ELSE <<>>)
         \o StringifyMembers(f, Tail(keys), bare, trailing)

JSONstringify(val) == Stringify(val, FALSE, FALSE)

(***************************************************************************)
(* JSON.parse.                                                             *)
(***************************************************************************)
JsonWhite == {" ", NL}

DigitSet == {DigitSyms[i] : i \in 1..10}

ParseFail == [ok |-> FALSE, val |-> JNull, next |-> 0]

ParseOk(val, next) == [ok |-> TRUE, val |-> val, next |-> next]

SkipWs(text, i) == i + RunLen(text, i, JsonWhite)

\* the characters of a string from position i, just after its opening quote
RECURSIVE ParseChars(_, _, _)
ParseChars(text, i, acc) ==
    CASE At(text, i) \in {"<end>", NL} -> ParseFail
      [] At(text, i) = QUOTE -> ParseOk(acc, i + 1)
      [] At(text, i) = BACKSLASH /\ At(text, i + 1) \in {QUOTE, BACKSLASH, "/"} ->
            ParseChars(text, i + 2, Append(acc, text[i + 1]))
      [] At(text, i) = BACKSLASH /\ At(text, i + 1) = "n" ->
            ParseChars(text, i + 2, Append(acc, NL))
      [] At(text, i) = BACKSLASH -> ParseFail
      [] OTHER -> ParseChars(text, i + 1, Append(acc, text[i]))

\* a string, given the outcome of ParseChars
StringValue(r) == IF r.ok THEN ParseOk(JStr(r.val), r.next) ELSE ParseFail

\* a number: digits, with no leading zero
NumberValue(text, i, n) ==
    IF text[i] = "0" /\ n > 1 THEN ParseFail ELSE ParseOk(JNum(SubSeq(text, i, i + n - 1)), i + n)

\* the position after the whitespace that follows the value or key r
After(text, r) == SkipWs(text, r.next)

RECURSIVE ParseValue(_, _), ParseElems(_, _, _), ElemsAfter(_, _, _)
RECURSIVE ParseMembers(_, _, _), MemberValue(_, _, _, _)
\* the value that starts at position i
ParseValue(text, i) ==
    CASE At(text, i) = QUOTE -> StringValue(ParseChars(text, i + 1, <<>>))
      [] At(text, i) = "[" /\ At(text, SkipWs(text, i + 1)) = "]" ->
            ParseOk(JArr(<<>>), SkipWs(text, i + 1) + 1)
      [] At(text, i) = "[" -> ParseElems(text, i + 1, <<>>)
      [] At(text, i) = "{" /\ At(text, SkipWs(text, i + 1)) = "}" ->
            ParseOk(JObj(<<>>), SkipWs(text, i + 1) + 1)
      [] At(text, i) = "{" -> ParseMembers(text, SkipWs(text, i + 1), <<>>)
      [] At(text, i) \in {"true", "false", "null"} -> ParseOk(JLit(text[i]), i + 1)
      [] At(text, i) \in DigitSet -> NumberValue(text, i, RunLen(text, i, DigitSet))
      [] OTHER -> ParseFail

\* the elements of an array from position i on, acc the elements before
ParseElems(text, i, acc) == ElemsAfter(text, ParseValue(text, SkipWs(text, i)), acc)

\* r is the element just parsed
ElemsAfter(text, r, acc) ==
    CASE ~r.ok -> ParseFail
      [] At(text, After(text, r)) = "," -> ParseElems(text, After(text, r) + 1, Append(acc, r.val))
      [] At(text, After(text, r)) = "]" -> ParseOk(JArr(Append(acc, r.val)), After(text, r) + 1)
      [] OTHER -> ParseFail

\* the members of an object from position i on, where a key begins; acc the
\* members before
ParseMembers(text, i, acc) ==
    CASE At(text, i) # QUOTE -> ParseFail
      [] ~ParseChars(text, i + 1, <<>>).ok -> ParseFail
      [] At(text, After(text, ParseChars(text, i + 1, <<>>))) = ":" ->
            MemberValue(text, ParseChars(text, i + 1, <<>>).val,
                        ParseValue(text, SkipWs(text, After(text, ParseChars(text, i + 1, <<>>)) + 1)),
                        acc)
      [] OTHER -> ParseFail

\* r is the value just parsed for key
MemberValue(text, key, r, acc) ==
    CASE ~r.ok -> ParseFail
      [] At(text, After(text, r)) = "," ->
            ParseMembers(text, SkipWs(text, After(text, r) + 1), (key :> r.val) @@ acc)
      [] At(text, After(text, r)) = "}" -> ParseOk(JObj((key :> r.val) @@ acc), After(text, r) + 1)
      [] OTHER -> ParseFail

\* JSON.parse throws unless only whitespace follows the value
Complete(text, r) ==
    IF r.ok /\ SkipWs(text, r.next) = Len(text) + 1 THEN r ELSE ParseFail

\* JSON.parse(text): ok is FALSE where JSON.parse throws
JSONparse(text) == Complete(text, ParseValue(text, SkipWs(text, 1)))

(***************************************************************************)
(* The text replacements of the response decoder                           *)
(* (parseXmlToUnstructuredMap, generateRepomap.ts 620-636).                *)
(***************************************************************************)
\* the three backticks of a markdown code fence, as one symbol
FENCE == "<fence>"

MinOf(S) == CHOOSE i \in S : \A j \in S : i <= j

\* the first position from i on where symbol a stands, followed by symbol b
\* unless b is "": 0 if there is none
FindFrom(text, i, a, b) ==
    LET hits == { j \in i..Len(text) : text[j] = a /\ (b = "" \/ At(text, j + 1) = b) }
    IN IF hits = {} THEN 0 ELSE MinOf(hits)

\* String.prototype.replace with a global pattern goes from one match to the
\* next, left to right; each operator below gives the length of the match that
\* starts at position i (0: none) and the replacement

\* line 621: a fence followed by json and an optional newline, or an optional
\* newline followed by a fence
FenceMarkerLen(text, i) ==
    IF text[i] = FENCE /\ At(text, i + 1) = "json" THEN (IF At(text, i + 2) = NL THEN 3 ELSE 2)
    ELSE IF text[i] = NL /\ At(text, i + 1) = FENCE THEN 2
    ELSE IF text[i] = FENCE THEN 1
    ELSE 0

RECURSIVE StripFenceMarkersFrom(_, _)
StripFenceMarkersFrom(text, from) ==
    LET starts == { i \in from..Len(text) : FenceMarkerLen(text, i) > 0 }
    IN IF starts = {} THEN SubSeq(text, from, Len(text))
       ELSE LET m == MinOf(starts)
            IN SubSeq(text, from, m - 1) \o StripFenceMarkersFrom(text, m + FenceMarkerLen(text, m))

StripFenceMarkers(text) == StripFenceMarkersFrom(text, 1)

\* lines 622 and 631: two slashes and the rest of the line, which is not empty
LineCommentLen(text, i) ==
    IF text[i] = "/" /\ At(text, i + 1) = "/" /\ At(text, i + 2) \notin {NL, "<end>"}
    THEN LET e == FindFrom(text, i + 2, NL, "")
         IN IF e = 0 THEN Len(text) - i + 1 ELSE e - i
    ELSE 0

RECURSIVE StripLineCommentsFrom(_, _)
StripLineCommentsFrom(text, from) ==
    LET starts == { i \in from..Len(text) : LineCommentLen(text, i) > 0 }
    IN IF starts = {} THEN SubSeq(text, from, Len(text))
       ELSE LET m == MinOf(starts)
            IN SubSeq(text, from, m - 1) \o StripLineCommentsFrom(text, m + LineCommentLen(text, m))

StripLineComments(text) == StripLineCommentsFrom(text, 1)

\* lines 623 and 632: from slash-star to the first star-slash after it
BlockCommentLen(text, i) ==
    IF text[i] = "/" /\ At(text, i + 1) = "*" /\ FindFrom(text, i + 2, "*", "/") # 0
    THEN FindFrom(text, i + 2, "*", "/") + 2 - i
    ELSE 0

RECURSIVE StripBlockCommentsFrom(_, _)
StripBlockCommentsFrom(text, from) ==
    LET starts == { i \in from..Len(text) : BlockCommentLen(text, i) > 0 }
    IN IF starts = {} THEN SubSeq(text, from, Len(text))
       ELSE LET m == MinOf(starts)
            IN SubSeq(text, from, m - 1) \o StripBlockCommentsFrom(text, m + BlockCommentLen(text, m))

StripBlockComments(text) == StripBlockCommentsFrom(text, 1)

\* .trim()
RECURSIVE TrimEnd(_)
TrimEnd(text) ==
    IF text # <<>> /\ text[Len(text)] \in WhiteSyms THEN TrimEnd(SubSeq(text, 1, Len(text) - 1))
    ELSE text

Trim(text) == TrimEnd(Drop(text, RunLen(text, 1, WhiteSyms)))

\* line 629: a code block, from a fence to the next fence, content included
CodeBlockLen(text, i) ==
    IF text[i] = FENCE /\ FindFrom(text, i + 1, FENCE, "") # 0
    THEN FindFrom(text, i + 1, FENCE, "") + 1 - i
    ELSE 0

RECURSIVE StripCodeBlocksFrom(_, _)
StripCodeBlocksFrom(text, from) ==
    LET starts == { i \in from..Len(text) : CodeBlockLen(text, i) > 0 }
    IN IF starts = {} THEN SubSeq(text, from, Len(text))
       ELSE LET m == MinOf(starts)
            IN SubSeq(text, from, m - 1) \o StripCodeBlocksFrom(text, m + CodeBlockLen(text, m))

StripCodeBlocks(text) == StripCodeBlocksFrom(text, 1)

\* line 630: the characters outside \x20-\x7E; of the symbols of this model,
\* the newline
StripNonPrintable(text) == SelectSeq(text, LAMBDA c : c # NL)

\* line 633: a comma, whitespace and a closing bracket; the comma is dropped
TrailingCommaLen(text, i) ==
    LET w == RunLen(text, i + 1, WhiteSyms)
    IN IF text[i] = "," /\ At(text, i + 1 + w) \in {"}", "]"} THEN w + 2 ELSE 0

RECURSIVE StripTrailingCommasFrom(_, _)
StripTrailingCommasFrom(text, from) ==
    LET starts == { i \in from..Len(text) : TrailingCommaLen(text, i) > 0 }
    IN IF starts = {} THEN SubSeq(text, from, Len(text))
       ELSE LET m == MinOf(starts)
                n == TrailingCommaLen(text, m)
            IN SubSeq(text, from, m - 1) \o SubSeq(text, m + 1, m + n - 1)
               \o StripTrailingCommasFrom(text, m + n)

StripTrailingCommas(text) == StripTrailingCommasFrom(text, 1)

\* line 634: a run of whitespace becomes one space
RECURSIVE NormalizeWhitespaceFrom(_, _)
NormalizeWhitespaceFrom(text, from) ==
    LET starts == { i \in from..Len(text) : text[i] \in WhiteSyms }
    IN IF starts = {} THEN SubSeq(text, from, Len(text))
       ELSE LET m == MinOf(starts)
            IN SubSeq(text, from, m - 1) \o <<" ">>
               \o NormalizeWhitespaceFrom(text, m + RunLen(text, m, WhiteSyms))

NormalizeWhitespace(text) == NormalizeWhitespaceFrom(text, 1)

\* line 635: "{" or ",", whitespace, a run of [a-zA-Z0-9_] and ":"; the run
\* is put in quotes
BareKeyLen(text, i) ==
    LET w == RunLen(text, i + 1, WhiteSyms)
        k == RunLen(text, i + 1 + w, WordSyms)
    IN IF text[i] \in {"{", ","} /\ k >= 1 /\ At(text, i + 1 + w + k) = ":" THEN w + k + 2 ELSE 0

RECURSIVE QuoteKeysFrom(_, _)
QuoteKeysFrom(text, from) ==
    LET starts == { i \in from..Len(text) : BareKeyLen(text, i) > 0 }
    IN IF starts = {} THEN SubSeq(text, from, Len(text))
       ELSE LET m == MinOf(starts)
                n == BareKeyLen(text, m)
                w == RunLen(text, m + 1, WhiteSyms)
            IN SubSeq(text, from, m + w) \o <<QUOTE>> \o SubSeq(text, m + 1 + w, m + n - 2)
               \o <<QUOTE, ":">> \o QuoteKeysFrom(text, m + n)

QuoteKeys(text) == QuoteKeysFrom(text, 1)

\* indexOf("{") and lastIndexOf("}"), counted from 1; 0 when absent
IndexOfOpen(text) == FindFrom(text, 1, "{", "")

LastIndexOfClose(text) ==
    LET hits == { i \in 1..Len(text) : text[i] = "}" }
    IN IF hits = {} THEN 0 ELSE CHOOSE i \in hits : \A j \in hits : j <= i

(***************************************************************************)
(* The response decoder (parseXmlToUnstructuredMap, lines 610-680).        *)
(***************************************************************************)
Thrown == [ok |-> FALSE, val |-> JNull, strategy |-> "thrown"]

\* lines 620-624
Cleaned(rawContent) ==
    Trim(StripBlockComments(StripLineComments(StripFenceMarkers(rawContent))))

\* lines 628-636
Aggressive(rawContent) ==
    Trim(QuoteKeys(NormalizeWhitespace(StripTrailingCommas(StripBlockComments(
        StripLineComments(StripNonPrintable(StripCodeBlocks(rawContent))))))))

\* the outcome of one try block: the value JSON.parse returned, with the name
\* of the strategy, or the exception
Try(r, name) ==
    IF r.ok THEN [ok |-> TRUE, val |-> r.val, strategy |-> name] ELSE Thrown

\* try { ... } catch { ... }: the catch block runs only if the try block threw
Catch(tried, handler) == IF tried.ok THEN tried ELSE handler

\* lines 639-646: from the first "{" to the last "}" of the cleaned text
BraceSubstring(aggressive) ==
    IF IndexOfOpen(aggressive) >= 1 /\ LastIndexOfClose(aggressive) > IndexOfOpen(aggressive)
    THEN Try(JSONparse(SubSeq(aggressive, IndexOfOpen(aggressive), LastIndexOfClose(aggressive))),
             "aggressive")
    ELSE Thrown

\* a mutant of ParseCascade: the aggressive cleanup is tried before the
\* markdown cleanup
ParseCascadeAggressiveFirst(rawContent) ==
    Catch(Try(JSONparse(rawContent), "direct"),
          Catch(BraceSubstring(Aggressive(rawContent)),
                Try(JSONparse(Cleaned(rawContent)), "cleaned")))

\* lines 613-648: the nested try blocks, for a content that is a string
ParseCascade(rawContent) ==
    Catch(Try(JSONparse(rawContent), "direct"),
          Catch(Try(JSONparse(Cleaned(rawContent)), "cleaned"),
                BraceSubstring(Aggressive(rawContent))))

\* value.name: undefined unless value is an object with that key
Prop(val, name) ==
    IF val.t = "obj" /\ <<name>> \in DOMAIN val.v THEN val.v[<<name>>] ELSE Undefined

IsArray(val) == val.t = "arr"

\* the values that || does not replace
Truthy(val) ==
    /\ val.t # "undef"
    /\ val \notin {JNull, JLit("false"), JStr(<<>>), JNum(<<"0">>)}

EmptyStructure ==
    JObj((<<"files">> :> JArr(<<>>)) @@ (<<"directories">> :> JArr(<<>>)))

\* a mutant of EnsureFile: the record is passed on as it came
EnsureFileAsIs(file) == file

\* lines 659-666: the record built for one element of files
EnsureFile(file) ==
    JObj((<<"path">> :> (IF Truthy(Prop(file, "path")) THEN Prop(file, "path") ELSE JStr(<<>>)))
         @@ (<<"imports">> :> (IF IsArray(Prop(file, "imports")) THEN Prop(file, "imports") ELSE JArr(<<>>)))
         @@ (<<"exports">> :> (IF IsArray(Prop(file, "exports")) THEN Prop(file, "exports") ELSE JArr(<<>>)))
         @@ (<<"relationships">> :>
               (IF IsArray(Prop(file, "relationships")) THEN Prop(file, "relationships") ELSE JArr(<<>>))))

\* lines 650-673; reading a property of null throws a TypeError
EnsureStructure(parsed0) ==
    IF parsed0 = JNull THEN Thrown
    ELSE LET parsed == IF IsArray(Prop(parsed0, "files")) THEN parsed0 ELSE EmptyStructure
             files == parsed.v[<<"files">>].v
         IN IF \E i \in 1..Len(files) : files[i] = JNull THEN Thrown
            ELSE LET mapped == JArr([i \in 1..Len(files) |-> EnsureFile(files[i])])
                     dirs == IF IsArray(Prop(parsed, "directories"))
                             THEN Prop(parsed, "directories") ELSE JArr(<<>>)
                 IN [ok |-> TRUE,
                     val |-> JObj((<<"files">> :> mapped) @@ (<<"directories">> :> dirs) @@ parsed.v),
                     strategy |-> "kept"]

\* lines 674-680: the outer catch returns the empty structure
Returned(p, e) ==
    IF e.ok THEN [val |-> e.val, strategy |-> p.strategy]
    ELSE [val |-> EmptyStructure, strategy |-> "default"]

Validated(p) == Returned(p, IF p.ok THEN EnsureStructure(p.val) ELSE Thrown)

\* lines 610-680: what parseXmlToUnstructuredMap returns for a response content
DecodeStructure(rawContent) == Validated(ParseCascade(rawContent))

(***************************************************************************)
(* OpenRouterChatModel._generate, lines 202-222: the text of the           *)
(* generation for a content that is a string.                              *)
(***************************************************************************)
\* lines 208-209
ContentParse(content) == JSONparse(Trim(StripFenceMarkers(content)))

\* lines 205-214: r is the outcome of the JSON.parse of line 209
ParsedContent(r, content) ==
    IF r.ok THEN r.val ELSE JObj(<<"diagram">> :> JStr(content))

\* typeof parsedContent === "object" ? JSON.stringify(parsedContent) : parsedContent
GenerationText(parsedContent) ==
    IF parsedContent.t \in {"obj", "arr"} \/ parsedContent = JNull
    THEN JSONstringify(parsedContent)
    ELSE parsedContent.v

(***************************************************************************)
(* Diagrams and line-count maps the mutator is run on.                     *)
(***************************************************************************)
HEADER == <<"flowchart", " ", "TB">>

\* <<indent, node id, label>>
Nodes ==
    { <<<<>>, "home", "Home.tsx">>,
      <<<<" ", " ">>, "header", "Header.tsx">>,
      <<<<>>, "misc", "Misc.ts">> }

\* <<opening brackets, closing brackets>>
Shapes ==
    { << <<"(">>, <<")">> >>,
      << <<"(", "[">>, <<"]", ")">> >>,
      << <<"[">>, <<"]">> >>,
      << <<"(", "(">>, <<")", ")">> >> }

NodeLine(node, shape, quoted) ==
    LET q == IF quoted THEN <<QUOTE>> ELSE <<>>
    IN node[1] \o <<node[2]>> \o shape[1] \o q \o <<node[3]>> \o q \o shape[2]

NodeLines == { NodeLine(n, sh, q) : n \in Nodes, sh \in Shapes, q \in BOOLEAN }

OtherLines ==
    { HEADER,
      <<"home", " ", "-->", " ", "header">>,
      <<"home", "(", "Home.tsx", ")", " ", "-->", " ", "header", "(", "Header.tsx", ")">> }

DiagramLines == NodeLines \cup OtherLines

Diagrams ==
    UNION { { Join(ls) : ls \in [1..n -> DiagramLines] } : n \in 1..MaxDiagramLines }

Key(sym) == <<sym>>

LineCountMaps ==
    { (Key("Home.tsx") :> 50) @@ (Key("Header.tsx") :> 300),
      (Key("Home.tsx") :> 101) @@ (Key("Misc.ts") :> 500),
      (Key("Header.tsx") :> 0) }

AnnotInit ==
    /\ diagram \in Diagrams
    /\ lineCountMap \in LineCountMaps
    /\ current = diagram
    /\ applied = 0

AnnotIdle ==
    /\ diagram = HEADER
    /\ lineCountMap = (Key("Home.tsx") :> 50)
    /\ current = diagram
    /\ applied = 0

\* generateRepomap lines 1054-1057 and 1071-1074: diagram = applyFontSizeScaling(diagram, map)
Annotate ==
    /\ applied < MaxApplications
    /\ current' = applyFontSizeScaling(current, lineCountMap)
    /\ applied' = applied + 1
    /\ UNCHANGED <<diagram, lineCountMap>>

(***************************************************************************)
(* The replies the decoders are run on.                                    *)
(***************************************************************************)
Str(sym) == JStr(<<sym>>)

\* IntermediateData (lines 80-88)
FileRecord(path, imports) ==
    JObj((<<"path">> :> JStr(path)) @@ (<<"imports">> :> JArr(imports))
         @@ (<<"exports">> :> JArr(<<Str("a")>>))
         @@ (<<"relationships">> :>
               JArr(<<JObj((<<"type">> :> Str("uses")) @@ (<<"target">> :> Str("b")))>>)))

Structure(files, dirs) ==
    JObj((<<"files">> :> JArr(files)) @@ (<<"directories">> :> JArr(dirs)))

PathPool == { <<"a">>, <<"src", "/", "a">>, <<"src", "/", "/", "a">> }

ImportPool == { <<>>, <<Str("b")>>, <<JStr(<<"a", ":", "/", "/", "b">>)>> }

DirPool == { <<>>, <<Str("src")>>, <<JStr(<<"src", "/", "*", "*", "/", "*">>), Str("a")>> }

ValidStructures ==
    {EmptyStructure}
    \cup { Structure(<<FileRecord(p, i)>>, d) : p \in PathPool, i \in ImportPool, d \in DirPool }

\* changesSchema (lines 393-414)
Proposal(explanation) ==
    JObj((<<"newNodes">> :>
            JArr(<<JObj((<<"id">> :> Str("a")) @@ (<<"label">> :> Str("a"))
                        @@ (<<"role">> :> Str("component")))>>))
         @@ (<<"newEdges">> :>
               JArr(<<JObj((<<"from">> :> Str("a")) @@ (<<"to">> :> Str("b"))
                           @@ (<<"relationship">> :> Str("uses"))
                           @@ (<<"proposed">> :> JLit("true")))>>))
         @@ (<<"explanation">> :> JStr(explanation)))

ExplanationPool ==
    { <<"a">>, <<"a", NL, "b">>, <<"a", " ", QUOTE, "b", QUOTE>>,
      <<"a", FENCE, "json", NL, "b", NL, FENCE>> }

ValidProposals == { Proposal(e) : e \in ExplanationPool }

\* values that parse but are not of the expected shape
OddValues ==
    { JNull, JLit("true"), JNum(<<"1">>), Str("a"), JArr(<<JNum(<<"1">>)>>), JObj(<<>>),
      JObj(<<"files">> :> JNull), JObj(<<"files">> :> Str("a")),
      JObj(<<"files">> :> JArr(<<JNull>>)),
      JObj(<<"files">> :> JArr(<<JNum(<<"1">>), JObj(<<>>)>>)),
      JObj((<<"files">> :> JArr(<<JObj((<<"path">> :> JNum(<<"0">>)) @@ (<<"imports">> :> Str("a"))
                                      @@ (<<"id">> :> Str("a")))>>))
           @@ (<<"directories">> :> JObj(<<>>)) @@ (<<"role">> :> Str("a"))) }

Wraps == {"plain", "fenced", "barefence", "prose"}

\* how a model reply wraps the text it was asked for
Wrap(text, wrap) ==
    IF wrap = "fenced" THEN <<FENCE, "json", NL>> \o text \o <<NL, FENCE>>
    ELSE IF wrap = "barefence" THEN <<FENCE, NL>> \o text \o <<NL, FENCE>>
    ELSE IF wrap = "prose" THEN <<"a", ":", NL>> \o text \o <<NL>>
    ELSE text

Sample(value, wrap, bare, trailing) ==
    [value |-> value, wrap |-> wrap, bare |-> bare, trailing |-> trailing]

Written == { Sample(v, w, b, t) : v \in ValidStructures \cup ValidProposals, w \in Wraps,
                                  b \in BOOLEAN, t \in BOOLEAN }
           \cup { Sample(v, w, FALSE, FALSE) : v \in OddValues, w \in {"plain", "fenced"} }

TextOf(s) == Wrap(Stringify(s.value, s.bare, s.trailing), s.wrap)

GarbageSyms == {"{", "}", "[", "]", QUOTE, ",", "null", "1", FENCE}

Garbage == UNION { [1..n -> GarbageSyms] : n \in 0..MaxGarbageLen }

NoSample == Sample(JNull, "garbage", FALSE, FALSE)

DecodeInit ==
    /\ target \in {"structure", "chat"}
    /\ \/ sample \in Written /\ raw = TextOf(sample)
       \/ sample = NoSample /\ raw \in Garbage
    /\ decoded = Undefined
    /\ strategy = "none"
    /\ generation = <<>>
    /\ dpc = "content"

DecodeIdle ==
    /\ target = "structure"
    /\ sample = NoSample
    /\ raw = <<>>
    /\ decoded = Undefined
    /\ strategy = "none"
    /\ generation = <<>>
    /\ dpc = "content"

\* parseXmlToUnstructuredMap, lines 610-680, given the content of the response
DecodeResponse ==
    /\ dpc = "content"
    /\ target = "structure"
    /\ \E r \in {DecodeStructure(raw)} :
          /\ decoded' = r.val
          /\ strategy' = r.strategy
    /\ dpc' = "done"
    /\ UNCHANGED <<target, sample, raw, generation>>

\* _generate, lines 202-232, given the content of the response
GenerateContent ==
    /\ dpc = "content"
    /\ target = "chat"
    /\ \E r \in {ContentParse(raw)} :
          /\ decoded' = ParsedContent(r, raw)
          /\ strategy' = IF r.ok THEN "parsed" ELSE "wrapped"
          /\ generation' = GenerationText(ParsedContent(r, raw))
    /\ dpc' = "done"
    /\ UNCHANGED <<target, sample, raw>>

(***************************************************************************)
(* changesSchema (lines 393-414): the zod schema the change proposal is    *)
(* parsed against.  A key the schema names must be there; one it does not  *)
(* name is ignored.                                                        *)
(***************************************************************************)
\* lines 247-252: ROLE_DEFINITIONS.map((r) => r.role)
ROLE_DEFINITIONS == <<"page", "component", "service", "config">>

\* z.string()
ZString(val) == val.t = "str"

\* z.boolean()
ZBoolean(val) == val \in {JLit("true"), JLit("false")}

\* z.enum(options)
ZEnum(val, options) == \E i \in 1..Len(options) : val = JStr(<<options[i]>>)

\* lines 395-401
NewNodeSchema(val) ==
    /\ val.t = "obj"
    /\ ZString(Prop(val, "id"))
    /\ ZString(Prop(val, "label"))
    /\ ZEnum(Prop(val, "role"), ROLE_DEFINITIONS)

\* lines 404-409
NewEdgeSchema(val) ==
    /\ val.t = "obj"
    /\ ZString(Prop(val, "from"))
    /\ ZString(Prop(val, "to"))
    /\ ZString(Prop(val, "relationship"))
    /\ ZBoolean(Prop(val, "proposed"))

\* changesSchema.safeParse(val).success
changesSchema(val) ==
    /\ val.t = "obj"
    /\ Prop(val, "newNodes").t = "arr"
    /\ \A i \in 1..Len(Prop(val, "newNodes").v) : NewNodeSchema(Prop(val, "newNodes").v[i])
    /\ Prop(val, "newEdges").t = "arr"
    /\ \A i \in 1..Len(Prop(val, "newEdges").v) : NewEdgeSchema(Prop(val, "newEdges").v[i])
    /\ ZString(Prop(val, "explanation"))

\* the member key: val of an object, none if val is undefined
Member(key, val) == IF val = Undefined THEN [k \in {} |-> Undefined] ELSE (<<key>> :> val)

NodeEntry(id, label, role) ==
    JObj(Member("id", id) @@ Member("label", label) @@ Member("role", role))

EdgeEntry(relationship, proposed) ==
    JObj(Member("from", Str("a")) @@ Member("to", Str("b"))
         @@ Member("relationship", relationship) @@ Member("proposed", proposed))

GoodNode == NodeEntry(Str("a"), Str("a"), Str("page"))

\* the change proposals a model may answer with, well formed or not
Candidates ==
    { JObj(Member("newNodes", JArr(before \o <<NodeEntry(id, label, role)>>))
           @@ Member("newEdges", JArr(<<EdgeEntry(relationship, proposed)>>))
           @@ Member("explanation", explanation)) :
        before \in {<<>>, <<GoodNode>>},
        id \in {JStr(<<>>), Str("a")},
        label \in {JStr(<<>>), Str("a")},
        role \in {Str(ROLE_DEFINITIONS[i]) : i \in 1..Len(ROLE_DEFINITIONS)}
                 \cup {Str("other"), Undefined},
        relationship \in {Str("uses"), Str("a"), Undefined},
        proposed \in {JLit("true"), JLit("false"), Str("true"), Undefined},
        explanation \in {Str("a"), Undefined} }
    \cup ValidProposals \cup OddValues

SchemaInit ==
    /\ candidate \in Candidates
    /\ verdict = "none"

SchemaIdle ==
    /\ candidate = JNull
    /\ verdict = "none"

\* lines 795-798: the structured output is parsed against changesSchema
ValidateProposal ==
    /\ verdict = "none"
    /\ verdict' = IF changesSchema(candidate) THEN "accepted" ELSE "rejected"
    /\ UNCHANGED candidate

(***************************************************************************)
(* generateRepomap (lines 997-1097): one run of the command.                *)
(***************************************************************************)
REPOMIX_OUTPUT_FILE == "repomix-output.xml"

BASE_FILE == "base_repomap.mmd"

\* lines 1025-1027: the name of the final diagram, with or without a feature
\* request; a name other than that of the base diagram (the two names are
\* the same only for a directory named add and a feature request that is
\* sanitized to base_repomap)
FINAL_FILE == "repomap.mmd"

DiagramFiles == {BASE_FILE, FINAL_FILE}

HomeLine == NodeLine(<<<<>>, "home", "Home.tsx">>, << <<"(", "[">>, <<"]", ")">> >>, TRUE)

\* what the model may answer when asked for a diagram: the text asked for,
\* or a diagram of another kind
DiagramReplies ==
    << Join(<<HEADER, HomeLine>>), Join(<<<<"graph", " ", "LR">>, HomeLine>>) >>

\* what the model may answer when asked for the structure
StructureReplies ==
    << JSONstringify(Structure(<<FileRecord(<<"a">>, <<>>)>>, <<>>)), <<"[">> >>

\* the reply that payload p stands for
ReplyOf(replies, p) == replies[((p - 1) % Len(replies)) + 1]

\* a base diagram left by an earlier run
EarlierBases == { applyFontSizeScaling(DiagramReplies[1], m) : m \in LineCountMaps }

NoCounts == [k \in {} |-> 0]

StartsWith(text, prefix) ==
    Len(text) >= Len(prefix) /\ SubSeq(text, 1, Len(prefix)) = prefix

RunInit ==
    /\ noRepomix \in BOOLEAN
    /\ featureRequest \in BOOLEAN
    /\ exists \in SUBSET {REPOMIX_OUTPUT_FILE, BASE_FILE}
    /\ xmlCounts \in IF REPOMIX_OUTPUT_FILE \in exists THEN LineCountMaps ELSE {NoCounts}
    /\ \E base \in IF BASE_FILE \in exists THEN EarlierBases ELSE {<<>>} :
          saved = [f \in DiagramFiles |-> IF f = BASE_FILE THEN base ELSE <<>>]
    /\ written = {}
    /\ rpc = "step1"
    /\ structureData = Undefined
    /\ runDiagram = <<>>
    /\ exitCode = 0
    /\ fetches = <<>>

RunIdle ==
    /\ noRepomix = FALSE
    /\ featureRequest = FALSE
    /\ exists = {}
    /\ xmlCounts = NoCounts
    /\ saved = [f \in DiagramFiles |-> <<>>]
    /\ written = {}
    /\ rpc = "step1"
    /\ structureData = Undefined
    /\ runDiagram = <<>>
    /\ exitCode = 0
    /\ fetches = <<>>

\* lines 1090-1096: the catch block of generateRepomap
Exit1 ==
    /\ rpc' = "exited"
    /\ exitCode' = 1
    /\ UNCHANGED <<noRepomix, featureRequest, exists, xmlCounts, saved, written,
                   structureData, runDiagram>>

\* saveDiagram(text, file), lines 907-910
SaveDiagram(text, file) ==
    /\ saved' = [saved EXCEPT ![file] = text]
    /\ exists' = exists \cup {file}
    /\ written' = written \cup {file}

\* a new model instance (lines 111-126, no maxRetries given) is asked to
\* generate: makeRequest(messages), attempt defaulting to 1
Invoke(conv) ==
    /\ config' = 0
    /\ maxRetries' = Constructor(0)
    /\ messages' = conv
    /\ attempt' = 1
    /\ cpc' = "fetch"
    /\ trace' = <<>>
    /\ result' = 0
    /\ error' = NoError

\* lines 1033-1039: execSync of repomix writes the analysis
RunRepomix ==
    /\ rpc = "step1" /\ ~noRepomix
    /\ xmlCounts' \in LineCountMaps
    /\ exists' = exists \cup {REPOMIX_OUTPUT_FILE}
    /\ rpc' = "step2"
    /\ UNCHANGED <<noRepomix, featureRequest, saved, written, structureData, runDiagram,
                   exitCode, fetches, clientVars>>

\* lines 1033-1044: execSync throws, or --no-repomix finds no analysis
RepomixFails ==
    /\ rpc = "step1" /\ (noRepomix => REPOMIX_OUTPUT_FILE \notin exists)
    /\ Exit1
    /\ UNCHANGED <<fetches, clientVars>>

\* lines 1033 and 1040: --no-repomix and the analysis is there
UseExistingXml ==
    /\ rpc = "step1" /\ noRepomix /\ REPOMIX_OUTPUT_FILE \in exists
    /\ rpc' = "step2"
    /\ UNCHANGED <<noRepomix, featureRequest, exists, xmlCounts, saved, written,
                   structureData, runDiagram, exitCode, fetches, clientVars>>

\* what the fetch of parseXmlToUnstructuredMap can end in short of a content
\* (lines 551-608)
StructureFailures == {"network", "status", "body", "noContent"}

\* a mutant of ParseXml: the outer catch rethrows what the decoder threw
ParseXmlRethrows ==
    /\ rpc = "step2"
    /\ \/ \E kind \in StructureFailures :
            /\ fetches' = Append(fetches, Event("call", "structure", 1, kind, 0, 0))
            /\ structureData' = EmptyStructure
            /\ rpc' = "step3"
            /\ UNCHANGED <<noRepomix, featureRequest, exists, xmlCounts, saved, written,
                           runDiagram, exitCode>>
       \/ \E p \in 1..MaxPayload :
            /\ fetches' = Append(fetches, Event("call", "structure", 1, "ok", 0, p))
            /\ IF DecodeStructure(ReplyOf(StructureReplies, p)).strategy = "default"
               THEN Exit1
               ELSE /\ structureData' = DecodeStructure(ReplyOf(StructureReplies, p)).val
                    /\ rpc' = "step3"
                    /\ UNCHANGED <<noRepomix, featureRequest, exists, xmlCounts, saved,
                                   written, runDiagram, exitCode>>
    /\ UNCHANGED clientVars

\* lines 1047-1048 and 543-681: one fetch; whatever goes wrong, the empty
\* structure is returned
ParseXml ==
    /\ rpc = "step2"
    /\ \/ \E kind \in StructureFailures :
            /\ fetches' = Append(fetches, Event("call", "structure", 1, kind, 0, 0))
            /\ structureData' = EmptyStructure
       \/ \E p \in 1..MaxPayload :
            /\ fetches' = Append(fetches, Event("call", "structure", 1, "ok", 0, p))
            /\ structureData' = DecodeStructure(ReplyOf(StructureReplies, p)).val
    /\ rpc' = "step3"
    /\ UNCHANGED <<noRepomix, featureRequest, exists, xmlCounts, saved, written,
                   runDiagram, exitCode, clientVars>>

\* what the fetch of generateMermaidDiagram can end in short of a content
\* (lines 699-767)
DiagramFailures == {"network", "body", "noContent"}

\* a mutant of GenerateBase: a missing base diagram is generated whether or
\* not --no-repomix was given
GenerateBaseAlways ==
    /\ rpc = "step3" /\ BASE_FILE \notin exists
    /\ \/ \E kind \in DiagramFailures :
            /\ fetches' = Append(fetches, Event("call", "diagram", 1, kind, 0, 0))
            /\ Exit1
       \/ \E p \in 1..MaxPayload :
            /\ fetches' = Append(fetches, Event("call", "diagram", 1, "ok", 0, p))
            /\ runDiagram' = applyFontSizeScaling(ReplyOf(DiagramReplies, p), xmlCounts)
            /\ SaveDiagram(runDiagram', BASE_FILE)
            /\ rpc' = "step4"
            /\ UNCHANGED <<noRepomix, featureRequest, xmlCounts, structureData, exitCode>>
    /\ UNCHANGED clientVars

\* lines 1052-1058 and 690-773: one fetch; its content is annotated and saved
\* as the base diagram, and a failure is thrown
GenerateBase ==
    /\ rpc = "step3" /\ BASE_FILE \notin exists /\ ~noRepomix
    /\ \/ \E kind \in DiagramFailures :
            /\ fetches' = Append(fetches, Event("call", "diagram", 1, kind, 0, 0))
            /\ Exit1
       \/ \E p \in 1..MaxPayload :
            /\ fetches' = Append(fetches, Event("call", "diagram", 1, "ok", 0, p))
            /\ runDiagram' = applyFontSizeScaling(ReplyOf(DiagramReplies, p), xmlCounts)
            /\ SaveDiagram(runDiagram', BASE_FILE)
            /\ rpc' = "step4"
            /\ UNCHANGED <<noRepomix, featureRequest, xmlCounts, structureData, exitCode>>
    /\ UNCHANGED clientVars

\* lines 1059-1062: the base diagram is read; readFileSync throws if it is
\* not there
UseExistingBase ==
    /\ rpc = "step3" /\ (BASE_FILE \in exists \/ noRepomix)
    /\ IF BASE_FILE \in exists
       THEN /\ runDiagram' = saved[BASE_FILE]
            /\ rpc' = "step4"
            /\ UNCHANGED <<noRepomix, featureRequest, exists, xmlCounts, saved, written,
                           structureData, exitCode>>
       ELSE Exit1
    /\ UNCHANGED <<fetches, clientVars>>

\* lines 1076-1079: no feature asked for; the base diagram is the final one
CopyBase ==
    /\ rpc = "step4" /\ ~featureRequest
    /\ SaveDiagram(runDiagram, FINAL_FILE)
    /\ rpc' = "exited"
    /\ exitCode' = 0
    /\ UNCHANGED <<noRepomix, featureRequest, xmlCounts, structureData, runDiagram,
                   fetches, clientVars>>

\* a mutant of GetProposedChanges: the proposal is asked for without waiting
\* for step 3
GetProposedChangesEarly ==
    /\ rpc \in {"step3", "step4"} /\ featureRequest
    /\ Invoke("convA")
    /\ rpc' = "propose"
    /\ UNCHANGED <<noRepomix, featureRequest, exists, xmlCounts, saved, written,
                   structureData, runDiagram, exitCode, fetches>>

\* lines 892 and 782-798: the change proposal is asked for
GetProposedChanges ==
    /\ rpc = "step4" /\ featureRequest
    /\ Invoke("convA")
    /\ rpc' = "propose"
    /\ UNCHANGED <<noRepomix, featureRequest, exists, xmlCounts, saved, written,
                   structureData, runDiagram, exitCode, fetches>>

\* a call of makeRequest is in progress
InCall == rpc \in {"propose", "integrate"}

\* the failures the calls of a run are made to meet
RunFailureKinds == {"timeout", "noChoices"}

\* the call just logged did not fail in another way
MetFailure == trace'[Len(trace')].outcome \in RunFailureKinds

\* the reply that stands for a change proposal changesSchema accepts
Conforms(p) == ReplyOf(<<TRUE, FALSE>>, p)

\* lines 893-896 and 805-824: the proposal came back and the integration is
\* asked for
IntegrateChanges ==
    /\ rpc = "propose" /\ cpc = "returned" /\ Conforms(result)
    /\ Invoke("convB")
    /\ rpc' = "integrate"
    /\ UNCHANGED <<noRepomix, featureRequest, exists, xmlCounts, saved, written,
                   structureData, runDiagram, exitCode, fetches>>

\* lines 795-798: the structured output does not parse against changesSchema
ProposalRejected ==
    /\ rpc = "propose" /\ cpc = "returned" /\ ~Conforms(result)
    /\ Exit1
    /\ UNCHANGED <<fetches, clientVars>>

\* lines 1066-1075: the diagram field of the integration is annotated and
\* saved as the final diagram
SaveFeatureDiagram ==
    /\ rpc = "integrate" /\ cpc = "returned"
    /\ runDiagram' = applyFontSizeScaling(ReplyOf(DiagramReplies, result), xmlCounts)
    /\ SaveDiagram(runDiagram', FINAL_FILE)
    /\ rpc' = "exited"
    /\ exitCode' = 0
    /\ UNCHANGED <<noRepomix, featureRequest, xmlCounts, structureData, fetches, clientVars>>

\* lines 233-236 and 1090-1096: makeRequest threw; _generate rethrows and the
\* run ends
ModelCallThrows ==
    /\ InCall /\ cpc = "thrown"
    /\ Exit1
    /\ UNCHANGED <<fetches, clientVars>>

(***************************************************************************)
(* makeRequest and _generate step by step (lines 136-237): every await is  *)
(* a position, time passes while a promise is pending.                     *)
(***************************************************************************)
\* this.timeout (line 125), in ticks
TimeoutTicks == 2

\* the bodies a response can carry: not JSON, or an envelope
BodyKinds == {"notJson", "noChoices", "emptyChoices", "noMessage", "noContent", "content"}

\* the contents of choices[0].message a model may answer with
ContentReplies ==
    << JSONstringify(Proposal(<<"a">>)),
       DiagramReplies[1],
       Wrap(JSONstringify(JObj(<<"diagram">> :> JStr(DiagramReplies[1]))), "fenced") >>

NoResponse == [ok |-> FALSE, body |-> "none", content |-> 0]

NoOutput == [defined |-> FALSE, text |-> <<>>]

RequestInit ==
    /\ qpc = "idle"
    /\ qAttempt = 0
    /\ issued = 0
    /\ inFlight = {}
    /\ timers = {}
    /\ elapsed = 0
    /\ response = NoResponse
    /\ failures = 0
    /\ sent = 0
    /\ lastError = "none"
    /\ callsMade = 0
    /\ output = NoOutput

\* lines 141-162: a controller, its abort timer, and the fetch
Issue(att) ==
    /\ qAttempt' = att
    /\ issued' = issued + 1
    /\ inFlight' = inFlight \cup {issued + 1}
    /\ timers' = timers \cup {issued + 1}
    /\ elapsed' = 0
    /\ qpc' = "fetching"

\* line 201: _generate calls makeRequest(messages); the caller makes its next
\* call once _generate has returned
MakeRequest ==
    /\ qpc \in {"idle", "generated"}
    /\ callsMade < MaxCalls
    /\ Issue(1)
    /\ callsMade' = callsMade + 1
    /\ response' = NoResponse
    /\ failures' = 0
    /\ sent' = 1
    /\ lastError' = "none"
    /\ output' = NoOutput

\* the abort timer of the request being fetched is due
TimerDue == qpc = "fetching" /\ issued \in timers /\ elapsed >= TimeoutTicks

\* time passes while a promise is pending
Tick ==
    /\ qpc \in {"fetching", "errorText", "json"}
    /\ ~TimerDue
    /\ elapsed < MaxTicks
    /\ elapsed' = elapsed + 1
    /\ UNCHANGED <<qpc, qAttempt, issued, inFlight, timers, response, failures, sent,
                   lastError, callsMade, output>>

\* lines 185-196: the catch block
CatchBlock(kind) ==
    /\ qpc' = IF qAttempt < Constructor(0) THEN "backoff" ELSE "thrown"
    /\ failures' = failures + 1
    /\ lastError' = kind

\* line 143: fetch rejects (the timer of line 141 is not cleared)
FetchRejects ==
    /\ qpc = "fetching"
    /\ inFlight' = inFlight \ {issued}
    /\ CatchBlock("network")
    /\ UNCHANGED <<qAttempt, issued, timers, elapsed, response, sent, callsMade, output>>

\* a mutant of TimeoutFires: the wait for the response is given up, the
\* request is not cancelled
TimeoutFiresNoAbort ==
    /\ TimerDue
    /\ timers' = timers \ {issued}
    /\ CatchBlock("timeout")
    /\ UNCHANGED <<qAttempt, issued, inFlight, elapsed, response, sent, callsMade, output>>

\* line 141: the timer fires while fetch is pending; controller.abort()
\* cancels the request and fetch rejects
TimeoutFires ==
    /\ TimerDue
    /\ timers' = timers \ {issued}
    /\ inFlight' = inFlight \ {issued}
    /\ CatchBlock("timeout")
    /\ UNCHANGED <<qAttempt, issued, elapsed, response, sent, callsMade, output>>

\* a timer left behind by a fetch that rejected fires: aborting a settled
\* request does nothing
StaleTimerFires ==
    /\ \E id \in timers :
         /\ id # issued \/ qpc # "fetching"
         /\ timers' = timers \ {id}
    /\ UNCHANGED <<qpc, qAttempt, issued, inFlight, elapsed, response, failures, sent,
                   lastError, callsMade, output>>

\* lines 143-167: fetch resolves with the head of a response; clearTimeout
ResponseArrives ==
    /\ qpc = "fetching"
    /\ \E ok \in BOOLEAN, body \in BodyKinds, c \in 1..Len(ContentReplies) :
         /\ (body # "content" => c = 1)
         /\ response' = [ok |-> ok, body |-> body, content |-> IF body = "content" THEN c ELSE 0]
         /\ qpc' = IF ok THEN "json" ELSE "errorText"
    /\ timers' = timers \ {issued}
    /\ UNCHANGED <<qAttempt, issued, inFlight, elapsed, failures, sent, lastError,
                   callsMade, output>>

\* lines 168-171: the error text is read and the error thrown
ErrorTextRead ==
    /\ qpc = "errorText"
    /\ inFlight' = inFlight \ {issued}
    /\ CatchBlock("status")
    /\ UNCHANGED <<qAttempt, issued, timers, elapsed, response, sent, callsMade, output>>

\* lines 176-180: !result.choices || !result.choices.length || !result.choices[0].message
InvalidFormat(body) == body \in {"noChoices", "emptyChoices", "noMessage"}

\* lines 174-184: response.json() settles and the envelope is looked at
BodyRead ==
    /\ qpc = "json"
    /\ inFlight' = inFlight \ {issued}
    /\ IF response.body = "notJson" THEN CatchBlock("body")
       ELSE IF InvalidFormat(response.body) THEN CatchBlock("format")
       ELSE qpc' = "returned" /\ UNCHANGED <<failures, lastError>>
    /\ UNCHANGED <<qAttempt, issued, timers, elapsed, response, sent, callsMade, output>>

\* lines 192-193: the wait is over; makeRequest(messages, attempt + 1)
Retry ==
    /\ qpc = "backoff"
    /\ Issue(qAttempt + 1)
    /\ sent' = sent + 1
    /\ UNCHANGED <<response, failures, lastError, callsMade, output>>

\* the text of the generation for a content (lines 202-222)
OutputFor(content) ==
    [defined |-> TRUE, text |-> GenerationText(ParsedContent(ContentParse(content), content))]

\* a mutant of GenerateResult: a content that is not JSON is asked for again
GenerateResultRetries ==
    /\ qpc = "returned"
    /\ IF /\ response.body = "content"
          /\ ~ContentParse(ContentReplies[response.content]).ok
          /\ qAttempt < Constructor(0)
       THEN /\ qpc' = "backoff"
            /\ output' = NoOutput
       ELSE /\ qpc' = "generated"
            /\ output' = IF response.body = "noContent" THEN NoOutput
                         ELSE OutputFor(ContentReplies[response.content])
    /\ UNCHANGED <<qAttempt, issued, inFlight, timers, elapsed, response, failures, sent,
                   lastError, callsMade>>

\* lines 202-232: _generate turns the result into a generation; a content
\* that is undefined stays undefined
GenerateResult ==
    /\ qpc = "returned"
    /\ qpc' = "generated"
    /\ output' = IF response.body = "noContent" THEN NoOutput
                 ELSE OutputFor(ContentReplies[response.content])
    /\ UNCHANGED <<qAttempt, issued, inFlight, timers, elapsed, response, failures, sent,
                   lastError, callsMade>>

(***************************************************************************)
(* parseLineCountsFromRepomix (lines 953-971).  In the text of an analysis *)
(* the opening of a file element up to the quote before the path, and its  *)
(* closing tag, are one symbol each; digits are one symbol each.           *)
(***************************************************************************)
FILE_OPEN == "<file path=\""

FILE_CLOSE == "</file>"

\* fileRegex (line 956) matched at i: the position of the quote that ends
\* the path, which is one or more symbols other than a quote (0: no match)
PathEnd(text, i) ==
    IF text[i] = FILE_OPEN
       /\ FindFrom(text, i + 1, QUOTE, ">") > i + 1
       /\ FindFrom(text, i + 1, QUOTE, ">") = FindFrom(text, i + 1, QUOTE, "")
    THEN FindFrom(text, i + 1, QUOTE, ">")
    ELSE 0

\* the position of the closing tag of the match at i: the first one after the
\* opening (0: no match)
FileBlockEnd(text, i) ==
    IF PathEnd(text, i) = 0 THEN 0 ELSE FindFrom(text, PathEnd(text, i) + 2, FILE_CLOSE, "")

\* match[1]
FilePath(text, i) == SubSeq(text, i + 1, PathEnd(text, i) - 1)

\* match[2]
FileContent(text, i) == SubSeq(text, PathEnd(text, i) + 2, FileBlockEnd(text, i) - 1)

\* parseInt(digits, 10)
RECURSIVE ParseInt(_)
ParseInt(ds) ==
    IF ds = <<>> THEN 0
    ELSE 10 * ParseInt(SubSeq(ds, 1, Len(ds) - 1))
         + (CHOOSE v \in 0..9 : DigitSyms[v + 1] = ds[Len(ds)])

\* line 961: the matches of /^(\d+):/gm, by the position they start at
NumberedLines(fileContent) ==
    { k \in 1..Len(fileContent) :
        /\ k = 1 \/ fileContent[k - 1] = NL
        /\ RunLen(fileContent, k, DigitSet) > 0
        /\ At(fileContent, k + RunLen(fileContent, k, DigitSet)) = ":" }

\* lines 960-965: maxLine
MaxLine(fileContent) ==
    LET nums == { ParseInt(SubSeq(fileContent, k, k + RunLen(fileContent, k, DigitSet) - 1)) :
                    k \in NumberedLines(fileContent) }
    IN IF nums = {} THEN 0 ELSE CHOOSE n \in nums : \A m \in nums : m <= n

\* line 966: path.basename(filePath): what follows the last slash, trailing
\* slashes apart
Basename(filePath) ==
    LET ends == { i \in 1..Len(filePath) : filePath[i] # "/" }
    IN IF ends = {} THEN <<>>
       ELSE LET e == CHOOSE i \in ends : \A j \in ends : j <= i
                slashes == { i \in 1..e : filePath[i] = "/" }
                b == IF slashes = {} THEN 0 ELSE CHOOSE i \in slashes : \A j \in slashes : j <= i
            IN SubSeq(filePath, b + 1, e)

\* a mutant of MapSet: an entry is replaced only by a larger value
MapSetKeepLargest(map, key, value) ==
    [k \in DOMAIN map \cup {key} |->
        IF k = key /\ (key \notin DOMAIN map \/ map[key] < value) THEN value ELSE map[k]]

\* line 967: lineCountMap.set(filename, maxLine)
MapSet(map, key, value) ==
    [k \in DOMAIN map \cup {key} |-> IF k = key THEN value ELSE map[k]]

\* lines 958-968: the loop over the matches of fileRegex from position from
\* on; each match is looked for after the end of the one before
RECURSIVE CountsFrom(_, _, _)
CountsFrom(text, from, map) ==
    LET starts == { i \in from..Len(text) : FileBlockEnd(text, i) > 0 }
    IN IF starts = {} THEN map
       ELSE LET m == MinOf(starts)
            IN CountsFrom(text, FileBlockEnd(text, m) + 1,
                          MapSet(map, Basename(FilePath(text, m)), MaxLine(FileContent(text, m))))

parseLineCountsFromRepomix(content) == CountsFrom(content, 1, NoCounts)

\* the paths of the files of an analysis, each with its basename
XmlPaths ==
    { [path |-> <<"src", "/", "a.ts">>, base |-> <<"a.ts">>],
      [path |-> <<"lib", "/", "a.ts">>, base |-> <<"a.ts">>],
      [path |-> <<"b.ts">>, base |-> <<"b.ts">>],
      [path |-> <<"src", "/", "lib", "/", "b.ts">>, base |-> <<"b.ts">>] }

\* the contents of the files of an analysis, each with the largest number
\* that a line of it starts with (0: no line starts with a number and a colon)
XmlContents ==
    { [text |-> <<>>, max |-> 0],
      [text |-> <<"1", ":", " ", "x", NL, "2", ":", " ", "x">>, max |-> 2],
      [text |-> <<"3", ":", NL, "1", "2", ":", " ", "x", NL, "5", ":">>, max |-> 12],
      [text |-> <<"x", " ", "9", ":">>, max |-> 0],
      [text |-> <<"0", "7", ":", " ", "x">>, max |-> 7],
      [text |-> <<"4", " ", "x", NL, "x">>, max |-> 0] }

XmlBlocks == { [path |-> p.path, base |-> p.base, text |-> c.text, max |-> c.max] :
                 p \in XmlPaths, c \in XmlContents }

\* a file element as repomix writes it
BlockText(b) == <<FILE_OPEN>> \o b.path \o <<QUOTE, ">", NL>> \o b.text \o <<NL, FILE_CLOSE, NL>>

RECURSIVE BlocksText(_)
BlocksText(bs) == IF bs = <<>> THEN <<>> ELSE BlockText(Head(bs)) \o BlocksText(Tail(bs))

AnalysisText(bs) == <<"<files>", NL>> \o BlocksText(bs) \o <<"</files>">>

CountInit ==
    /\ xmlBlocks \in UNION { [1..n -> XmlBlocks] : n \in 1..MaxBlocks }
    /\ xmlText = AnalysisText(xmlBlocks)
    /\ countMap = NoCounts
    /\ counted = FALSE

CountIdle ==
    /\ xmlBlocks = <<>>
    /\ xmlText = AnalysisText(<<>>)
    /\ countMap = NoCounts
    /\ counted = FALSE

\* lines 1056 and 1073: parseLineCountsFromRepomix(REPOMIX_OUTPUT_FILE)
ParseLineCounts ==
    /\ ~counted
    /\ countMap' = parseLineCountsFromRepomix(xmlText)
    /\ counted' = TRUE
    /\ UNCHANGED <<xmlBlocks, xmlText>>

(***************************************************************************)
(* Specifications.                                                         *)
(***************************************************************************)
FontInit == FontIdle /\ ClientIdle /\ AnnotIdle /\ DecodeIdle /\ RunIdle /\ SchemaIdle /\ RequestInit
    /\ CountIdle

FontNext == CalcFont /\ UNCHANGED <<clientVars, annotVars, decodeVars, runVars, schemaVars, requestVars, countVars>>

SpecFont == FontInit /\ [][FontNext]_vars

ClientSpecInit == ClientInit /\ FontIdle /\ AnnotIdle /\ DecodeIdle /\ RunIdle /\ SchemaIdle /\ RequestInit
    /\ CountIdle

ClientNext ==
    \/ Generate /\ UNCHANGED <<fontVars, annotVars, decodeVars, runVars, schemaVars, requestVars, countVars>>
    \/ FetchFails /\ UNCHANGED <<fontVars, annotVars, decodeVars, runVars, schemaVars, requestVars, countVars>>
    \/ FetchSucceeds /\ UNCHANGED <<fontVars, annotVars, decodeVars, runVars, schemaVars, requestVars, countVars>>
    \/ BackoffElapsed /\ UNCHANGED <<fontVars, annotVars, decodeVars, runVars, schemaVars, requestVars, countVars>>

SpecClient == ClientSpecInit /\ [][ClientNext]_vars

AnnotSpecInit == AnnotInit /\ FontIdle /\ ClientIdle /\ DecodeIdle /\ RunIdle /\ SchemaIdle /\ RequestInit
    /\ CountIdle

AnnotNext == Annotate /\ UNCHANGED <<fontVars, clientVars, decodeVars, runVars, schemaVars, requestVars, countVars>>

SpecAnnotate == AnnotSpecInit /\ [][AnnotNext]_vars

DecodeSpecInit == DecodeInit /\ FontIdle /\ ClientIdle /\ AnnotIdle /\ RunIdle /\ SchemaIdle /\ RequestInit
    /\ CountIdle

DecodeNext ==
    \/ DecodeResponse /\ UNCHANGED <<fontVars, clientVars, annotVars, runVars, schemaVars, requestVars, countVars>>
    \/ GenerateContent /\ UNCHANGED <<fontVars, clientVars, annotVars, runVars, schemaVars, requestVars, countVars>>

SpecDecode == DecodeSpecInit /\ [][DecodeNext]_vars

RunSpecInit == RunInit /\ FontIdle /\ ClientIdle /\ AnnotIdle /\ DecodeIdle /\ SchemaIdle /\ RequestInit
    /\ CountIdle

RunNext ==
    \/ RunRepomix /\ UNCHANGED <<fontVars, annotVars, decodeVars, schemaVars, requestVars, countVars>>
    \/ RepomixFails /\ UNCHANGED <<fontVars, annotVars, decodeVars, schemaVars, requestVars, countVars>>
    \/ UseExistingXml /\ UNCHANGED <<fontVars, annotVars, decodeVars, schemaVars, requestVars, countVars>>
    \/ ParseXml /\ UNCHANGED <<fontVars, annotVars, decodeVars, schemaVars, requestVars, countVars>>
    \/ GenerateBase /\ UNCHANGED <<fontVars, annotVars, decodeVars, schemaVars, requestVars, countVars>>
    \/ UseExistingBase /\ UNCHANGED <<fontVars, annotVars, decodeVars, schemaVars, requestVars, countVars>>
    \/ CopyBase /\ UNCHANGED <<fontVars, annotVars, decodeVars, schemaVars, requestVars, countVars>>
    \/ GetProposedChanges /\ UNCHANGED <<fontVars, annotVars, decodeVars, schemaVars, requestVars, countVars>>
    \/ IntegrateChanges /\ UNCHANGED <<fontVars, annotVars, decodeVars, schemaVars, requestVars, countVars>>
    \/ ProposalRejected /\ UNCHANGED <<fontVars, annotVars, decodeVars, schemaVars, requestVars, countVars>>
    \/ SaveFeatureDiagram /\ UNCHANGED <<fontVars, annotVars, decodeVars, schemaVars, requestVars, countVars>>
    \/ ModelCallThrows /\ UNCHANGED <<fontVars, annotVars, decodeVars, schemaVars, requestVars, countVars>>
    \/ InCall /\ FetchFails /\ MetFailure /\ UNCHANGED <<fontVars, annotVars, decodeVars, runVars, schemaVars, requestVars, countVars>>
    \/ InCall /\ FetchSucceeds /\ UNCHANGED <<fontVars, annotVars, decodeVars, runVars, schemaVars, requestVars, countVars>>
    \/ InCall /\ BackoffElapsed /\ UNCHANGED <<fontVars, annotVars, decodeVars, runVars, schemaVars, requestVars, countVars>>

SpecRun == RunSpecInit /\ [][RunNext]_vars

SchemaSpecInit == SchemaInit /\ FontIdle /\ ClientIdle /\ AnnotIdle /\ DecodeIdle /\ RunIdle
                  /\ RequestInit /\ CountIdle

SchemaNext ==
    ValidateProposal /\ UNCHANGED <<fontVars, clientVars, annotVars, decodeVars, runVars, requestVars, countVars>>

SpecSchema == SchemaSpecInit /\ [][SchemaNext]_vars

RequestSpecInit ==
    RequestInit /\ FontIdle /\ ClientIdle /\ AnnotIdle /\ DecodeIdle /\ RunIdle /\ SchemaIdle
    /\ CountIdle

OtherVars == <<fontVars, clientVars, annotVars, decodeVars, runVars, schemaVars, countVars>>

RequestNext ==
    \/ MakeRequest /\ UNCHANGED OtherVars
    \/ Tick /\ UNCHANGED OtherVars
    \/ FetchRejects /\ UNCHANGED OtherVars
    \/ TimeoutFires /\ UNCHANGED OtherVars
    \/ StaleTimerFires /\ UNCHANGED OtherVars
    \/ ResponseArrives /\ UNCHANGED OtherVars
    \/ ErrorTextRead /\ UNCHANGED OtherVars
    \/ BodyRead /\ UNCHANGED OtherVars
    \/ Retry /\ UNCHANGED OtherVars
    \/ GenerateResult /\ UNCHANGED OtherVars

SpecRequest == RequestSpecInit /\ [][RequestNext]_vars

CountSpecInit ==
    CountInit /\ FontIdle /\ ClientIdle /\ AnnotIdle /\ DecodeIdle /\ RunIdle /\ SchemaIdle
    /\ RequestInit

CountNext ==
    ParseLineCounts
    /\ UNCHANGED <<fontVars, clientVars, annotVars, decodeVars, runVars, schemaVars, requestVars>>

SpecCounts == CountSpecInit /\ [][CountNext]_vars

(***************************************************************************)
(* Properties.                                                             *)
(***************************************************************************)
Calls == SelectSeq(trace, LAMBDA x : x.e = "call")

Waits == SelectSeq(trace, LAMBDA x : x.e = "wait")

FailedCalls == SelectSeq(Calls, LAMBDA x : x.outcome # "ok")

ExhaustedRetries ==
    cpc = "thrown" =>
        /\ (config = 0 => maxRetries = 3)
        /\ Len(Calls) = maxRetries
        /\ Len(FailedCalls) = maxRetries
        /\ Len(Waits) = maxRetries - 1
        /\ \A i \in 1..(maxRetries - 1) : Waits[i].ms = 2 * i * 1000
        /\ trace[Len(trace)].e = "call"
        /\ error = [kind |-> Calls[maxRetries].outcome, call |-> maxRetries]

ExhaustedRetriesWitness ==
    /\ cpc = "thrown"
    /\ config = 0
    /\ Len(Calls) = 3
    /\ Len(Waits) = 2
    /\ Waits[1].ms = 2000
    /\ Waits[2].ms = 4000
    /\ Calls[1].outcome # Calls[3].outcome
    /\ error.kind = Calls[3].outcome

\* C9: fontSize(L) is 10 up to 100 lines, 20 from 500 lines on,
\* 10 + (L - 100) * 10 / 400 in between, and never decreases as L grows.
FontSizePolicy ==
    fpc # "none" =>
        /\ (lines <= 100 => fontSize = FracInt(10))
        /\ (lines >= 500 => fontSize = FracInt(20))
        /\ (lines > 100 /\ lines < 500 => fontSize = Frac(10 * 400 + (lines - 100) * 10, 400))
        /\ FracLeq(FracInt(10), fontSize) /\ FracLeq(fontSize, FracInt(20))
        /\ (fpc = "two" /\ prevLines <= lines => FracLeq(prevFont, fontSize))
        /\ (lines = 300 => fontSize = FracInt(15))

FontSizePolicyWitness ==
    /\ fpc = "two"
    /\ prevLines = 299
    /\ lines = 300
    /\ fontSize = FracInt(15)
    /\ prevFont = Frac(599, 40)

\* the node declarations the pattern is written for: an identifier, "(" or
\* "([", a label with or without quotes, and the matching closing bracket
PatternShapes == { sh \in Shapes : sh[1] \in { <<"(">>, <<"(", "[">> } }

DeclaredNodes(line) ==
    { n \in Nodes : \E sh \in PatternShapes, q \in BOOLEAN : line = NodeLine(n, sh, q) }

RECURSIVE ExpectedLines(_, _)
ExpectedLines(ls, map) ==
    IF ls = <<>> THEN <<>>
    ELSE LET keyed == { n \in DeclaredNodes(Head(ls)) : Key(n[3]) \in DOMAIN map }
         IN (IF keyed = {} THEN <<Head(ls)>>
             ELSE LET n == CHOOSE x \in keyed : TRUE
                  IN <<Head(ls), StyleLine(<<n[2]>>, calculateFontSize(map[Key(n[3])]))>>)
            \o ExpectedLines(Tail(ls), map)

\* C10: after one annotation every node-declaration line whose label is a key
\* of the line-count map is followed by its style line, and no other line is
\* followed by an inserted line.
StyleLineAfterEveryKeyedNode ==
    applied = 1 => Split(current) = ExpectedLines(Split(diagram), lineCountMap)

\* what the IntermediateData interface (lines 80-88) requires of a value
IsFileRecord(file) ==
    /\ file.t = "obj"
    /\ {<<"path">>, <<"imports">>, <<"exports">>, <<"relationships">>} \subseteq DOMAIN file.v
    /\ IsArray(file.v[<<"imports">>])
    /\ IsArray(file.v[<<"exports">>])
    /\ IsArray(file.v[<<"relationships">>])

IsStructure(val) ==
    /\ val.t = "obj"
    /\ {<<"files">>, <<"directories">>} \subseteq DOMAIN val.v
    /\ IsArray(val.v[<<"files">>])
    /\ \A i \in 1..Len(val.v[<<"files">>].v) : IsFileRecord(val.v[<<"files">>].v[i])
    /\ IsArray(val.v[<<"directories">>])

StructureDecoded == target = "structure" /\ dpc = "done"

\* C5: whatever the response text, parseXmlToUnstructuredMap returns a value:
\* an object whose files is an array of records that each have path, imports,
\* exports and relationships (the last three arrays) and whose directories is
\* an array; and if none of the three attempts parses the text, the value is
\* the empty structure.
DecoderNeverRaises ==
    StructureDecoded =>
        /\ IsStructure(decoded)
        /\ ~ParseCascade(raw).ok => decoded = EmptyStructure

\* a text that no attempt parses has been decoded
DecoderNeverRaisesWitness ==
    /\ StructureDecoded
    /\ sample = NoSample
    /\ Len(raw) >= 2
    /\ ~ParseCascade(raw).ok
    /\ decoded = EmptyStructure

\* C6: a valid structure written as JSON inside a json code fence is decoded
\* to that structure, by the second attempt.
FencedDecodedBySecond ==
    (StructureDecoded /\ sample.wrap = "fenced" /\ ~sample.bare /\ ~sample.trailing
       /\ sample.value \in ValidStructures)
    => (decoded = sample.value /\ strategy = "cleaned")

\* C7: a valid structure written inside a json code fence with bare keys and
\* trailing commas is decoded to that structure, by the third attempt.
CorruptedDecodedByThird ==
    (StructureDecoded /\ sample.wrap = "fenced" /\ sample.bare /\ sample.trailing
       /\ sample.value \in ValidStructures)
    => (decoded = sample.value /\ strategy = "aggressive")

\* C8: decoding JSON.stringify of a valid value gives back that value: a
\* structure through parseXmlToUnstructuredMap, a change proposal through
\* _generate (whose generation text parses to it as well).
RoundTrip ==
    (dpc = "done" /\ sample.wrap = "plain" /\ ~sample.bare /\ ~sample.trailing)
    => /\ (target = "structure" /\ sample.value \in ValidStructures) => decoded = sample.value
       /\ (target = "chat" /\ sample.value \in ValidProposals)
            => (decoded = sample.value /\ JSONparse(generation).val = sample.value)

\* C1: every diagram file this run has saved starts with the header
\* flowchart TB: a reply that does not is thrown away, not annotated and
\* saved.
SavedDiagramsStartWithHeader ==
    \A file \in written : StartsWith(saved[file], HEADER)

\* C4: every request of a run that fails before the retry budget is spent is
\* made again: a failed direct fetch is followed by the next attempt of the
\* same stage, and makeRequest throws only after DEFAULT_MAX_RETRIES failed
\* calls.
EveryFailedCallRetried ==
    /\ (InCall /\ cpc = "thrown") => Len(FailedCalls) = DEFAULT_MAX_RETRIES
    /\ \A i \in 1..Len(fetches) :
          (fetches[i].outcome # "ok" /\ fetches[i].attempt < DEFAULT_MAX_RETRIES)
          => \E j \in (i + 1)..Len(fetches) :
                /\ fetches[j].conv = fetches[i].conv
                /\ fetches[j].attempt = fetches[i].attempt + 1

IsStyleLine(line) == line # <<>> /\ Head(line) = "style"

\* out is the lines of inp, each followed by at most one style line
RECURSIVE OnlyStyleLinesAdded(_, _)
OnlyStyleLinesAdded(out, inp) ==
    IF inp = <<>> THEN out = <<>>
    ELSE /\ out # <<>>
         /\ Head(out) = Head(inp)
         /\ LET rest == Tail(out)
            IN \/ OnlyStyleLinesAdded(rest, Tail(inp))
               \/ /\ rest # <<>>
                  /\ IsStyleLine(Head(rest))
                  /\ OnlyStyleLinesAdded(Tail(rest), Tail(inp))

\* C11: an annotation only adds lines: its output is its input with style
\* lines inserted, every line of the input kept as it was, once and in
\* order.
AnnotateOnlyAddsLines ==
    [][applied' # applied => OnlyStyleLinesAdded(Split(current'), Split(current))]_vars

\* an annotation has inserted a style line into a diagram that also has a
\* line that is no node declaration
AnnotateOnlyAddsLinesWitness ==
    /\ applied = 1
    /\ Len(Split(current)) > Len(Split(diagram))
    /\ \E i \in 1..Len(Split(diagram)) : ~NodeRegex(Split(diagram)[i]).matched
\* the <<node id, font size>> pairs of the style lines of a text
StyleBindings(text) ==
    LET ls == Split(text)
    IN { <<ls[i][3], SubSeq(ls[i], 6, Len(ls[i]) - 1)>> :
           i \in { j \in 1..Len(ls) : IsStyleLine(ls[j]) /\ Len(ls[j]) >= 7 } }

\* C12: annotating an annotated diagram again with the same map leaves the
\* set of node-to-font-size bindings of its style lines as it was, and adds
\* as many lines as the first annotation did: no style line is taken for a
\* node declaration.
ReannotationKeepsBindings ==
    [][(applied >= 1 /\ applied' = applied + 1)
         => /\ StyleBindings(current') = StyleBindings(current)
            /\ (Len(Split(current')) - Len(Split(current))) * applied
                  = Len(Split(current)) - Len(Split(diagram))]_vars

\* a diagram with two different bindings has been annotated twice
ReannotationKeepsBindingsWitness ==
    /\ applied = 2
    /\ Cardinality(StyleBindings(current)) = 2
    /\ Len(Split(current)) = Len(Split(diagram)) + 4
NonEmptyString(val) == val.t = "str" /\ val.v # <<>>

\* what the change-proposal contract requires of the entries of a document
WellFormedEntries(val) ==
    /\ Prop(val, "newNodes").t = "arr"
    /\ \A i \in 1..Len(Prop(val, "newNodes").v) :
          LET node == Prop(val, "newNodes").v[i]
          IN /\ NonEmptyString(Prop(node, "id"))
             /\ NonEmptyString(Prop(node, "label"))
             /\ \E r \in 1..Len(ROLE_DEFINITIONS) : Prop(node, "role") = Str(ROLE_DEFINITIONS[r])
    /\ Prop(val, "newEdges").t = "arr"
    /\ \A i \in 1..Len(Prop(val, "newEdges").v) :
          LET edge == Prop(val, "newEdges").v[i]
          IN /\ Prop(edge, "from").t = "str"
             /\ Prop(edge, "to").t = "str"
             /\ Prop(edge, "relationship").t = "str"
             /\ Prop(edge, "proposed") \in {JLit("true"), JLit("false")}

\* C13: a change proposal that changesSchema accepts has, in every new node,
\* a non-empty id, a non-empty label and a role of ROLE_DEFINITIONS and, in
\* every new edge, from, to, relationship and a boolean proposed; one with an
\* entry that has not is rejected.
AcceptedProposalsWellFormed ==
    verdict = "accepted" => WellFormedEntries(candidate)
\* the diagram-generation call of this run answered with a text that does not
\* start with the header
BaseHeaderViolated ==
    \E i \in 1..Len(fetches) :
        /\ fetches[i].conv = "diagram" /\ fetches[i].outcome = "ok"
        /\ ~StartsWith(ReplyOf(DiagramReplies, fetches[i].payload), HEADER)

\* the integration call answered with such a text, and the run went on from it
FinalHeaderViolated ==
    /\ rpc = "exited" /\ messages = "convB" /\ cpc = "returned"
    /\ ~StartsWith(ReplyOf(DiagramReplies, result), HEADER)

\* the change proposal was not accepted, and the run went on from it
ProposalViolated ==
    /\ rpc # "propose" /\ messages = "convA" /\ cpc = "returned" /\ ~Conforms(result)

\* a call of the model client used up its retries, and the run went on from it
BudgetExhausted == ~InCall /\ cpc = "thrown"

\* C14: after a hard failure (a diagram without the header, a change proposal
\* that is not accepted, a model call out of retries) the run has ended with
\* a non-zero exit code, has made no further model call and has written no
\* diagram file from it.
HardFailuresEndTheRun ==
    /\ BaseHeaderViolated => (rpc = "exited" /\ exitCode # 0 /\ written = {} /\ trace = <<>>)
    /\ FinalHeaderViolated => (exitCode # 0 /\ FINAL_FILE \notin written)
    /\ ProposalViolated => (rpc = "exited" /\ exitCode # 0 /\ FINAL_FILE \notin written)
    /\ BudgetExhausted => (rpc = "exited" /\ exitCode # 0 /\ FINAL_FILE \notin written)
\* C15: the change-proposal and integration calls are made only once the base
\* diagram is on disk, and when one of them fails the run ends with the base
\* diagram file as it was and no feature diagram file.
FeatureCallsAfterBase ==
    /\ InCall => (featureRequest /\ BASE_FILE \in exists /\ saved[BASE_FILE] = runDiagram)
    /\ (ProposalViolated \/ BudgetExhausted)
         => /\ BASE_FILE \in exists
            /\ saved[BASE_FILE] = runDiagram
            /\ FINAL_FILE \notin exists

\* the integration call of a run that generated its base diagram has failed
FeatureCallsAfterBaseWitness ==
    /\ BudgetExhausted
    /\ messages = "convB"
    /\ written = {BASE_FILE}
    /\ saved[BASE_FILE] # <<>>
\* the payloads that stand for a content no attempt of the decoder parses
UnparsedPayloads ==
    { p \in 1..MaxPayload : ~ParseCascade(ReplyOf(StructureReplies, p)).ok }

\* the structure-extraction call of this run answered with a content that no
\* attempt of the decoder parses
DecodeFailed ==
    \E i \in 1..Len(fetches) :
        /\ fetches[i].conv = "structure" /\ fetches[i].outcome = "ok"
        /\ fetches[i].payload \in UnparsedPayloads

\* C16: a structure-extraction reply that the decoder cannot parse does not
\* end the run: step 2 hands the empty structure to step 3.
DecodeFailureDoesNotAbort ==
    [][(rpc = "step2" /\ DecodeFailed')
         => (rpc' = "step3" /\ exitCode' = 0 /\ structureData' = EmptyStructure)]_vars

\* after such a reply the diagram-generation call has been made
DecodeFailureDoesNotAbortWitness ==
    /\ DecodeFailed
    /\ structureData = EmptyStructure
    /\ \E i \in 1..Len(fetches) : fetches[i].conv = "diagram" /\ fetches[i].outcome = "ok"
    /\ BASE_FILE \in written
\* a request of makeRequest is pending: its response or its body is awaited
Pending == qpc \in {"fetching", "errorText", "json"}

\* C17: no attempt of makeRequest is pending for longer than the timeout,
\* whether it waits for the response or reads its body: the timer aborts it
\* and the attempt fails into the catch block like a network error.
AttemptsEndByDeadline ==
    /\ Pending => elapsed <= TimeoutTicks
    /\ lastError = "timeout" => failures >= 1

\* C18: makeRequest returns only an envelope that has choices, a first choice
\* with a message, and text or structured content in that message; any other
\* envelope is a failed attempt.
OnlyFullEnvelopesReturned ==
    qpc \in {"returned", "generated"} => (response.ok /\ response.body = "content")
\* the contents that are not JSON, with or without a code fence
NotJsonContents ==
    { c \in 1..Len(ContentReplies) : ~ContentParse(ContentReplies[c]).ok }

\* C19: a response with a well-formed envelope whose content is not JSON is
\* not asked for again: the request that brought it is the last of the call
\* (the requests of the call are its failed attempts and this one), and the
\* generation is the content wrapped as the diagram field.
InvalidContentNotRetried ==
    (qpc = "generated" /\ response.content \in NotJsonContents)
    => /\ sent = failures + 1
       /\ inFlight = {}
       /\ output.defined
       /\ output.text
            = JSONstringify(JObj(<<"diagram">> :> JStr(ContentReplies[response.content])))

\* such a response to the first request of a call has been turned into a
\* generation
InvalidContentNotRetriedWitness ==
    /\ qpc = "generated"
    /\ response.content \in NotJsonContents
    /\ sent = 1
    /\ failures = 0
    /\ issued = 1
    /\ output.defined
ExpectedCounts(bs) ==
    [key \in { bs[i].base : i \in 1..Len(bs) } |->
        LET same == { i \in 1..Len(bs) : bs[i].base = key }
        IN bs[CHOOSE i \in same : \A j \in same : j <= i].max]

\* C21: the line-count map has one entry for each distinct basename of the
\* file blocks of the analysis; its value is the largest number that a line
\* of the block starts with (0 if none does), taken from the last block of
\* that basename.
LineCountsByBasename ==
    counted => countMap = ExpectedCounts(xmlBlocks)

\* two blocks of one basename in different directories, the first with the
\* larger count, have been counted
LineCountsByBasenameWitness ==
    /\ counted
    /\ Len(xmlBlocks) = 2
    /\ xmlBlocks[1].base = xmlBlocks[2].base
    /\ xmlBlocks[1].path # xmlBlocks[2].path
    /\ xmlBlocks[1].max = 12
    /\ xmlBlocks[2].max = 2
    /\ countMap = (xmlBlocks[2].base :> 2)
\* a node declared in the diagram has its label in the line-count map
KeyedNodeDeclared ==
    \E i \in 1..Len(Split(diagram)) :
       \E n \in DeclaredNodes(Split(diagram)[i]) : Key(n[3]) \in DOMAIN lineCountMap

\* every line of ls that a style line follows is followed by exactly k style
\* lines, all the same
StyleRuns(ls, k) ==
    \A i \in 1..(Len(ls) - 1) :
       (~IsStyleLine(ls[i]) /\ IsStyleLine(ls[i + 1]))
       => /\ i + k <= Len(ls)
          /\ \A j \in (i + 1)..(i + k) : ls[j] = ls[i + 1]
          /\ (i + k < Len(ls) => ~IsStyleLine(ls[i + k + 1]))

\* C22: after k annotations with the same map every annotated node line is
\* followed by exactly k identical style lines, and the second annotation
\* of a diagram that declares a node whose label is in the map gives a text
\* that differs from the first.
ReannotationDuplicatesStyleLines ==
    /\ applied >= 1 => StyleRuns(Split(current), applied)
    /\ (applied = 2 /\ KeyedNodeDeclared)
          => current # applyFontSizeScaling(diagram, lineCountMap)
====
